---- MODULE Spec2Model ----
(***************************************************************************)
(* DiagTCM: the multi-symptom selection engine of multi.py                 *)
(* (DiagnosticSystem) and the interactive driver of final.py               *)
(* (multi_round_diagnosis).                                                *)
(*                                                                         *)
(* Numbers.  A quantity q of the code (information gain, coverage,         *)
(* independence) is the integer nearest to q * Scale, rounded once, and a  *)
(* combined score s is an integer within a few units of s * ScoreUnit.     *)
(* Sums of logarithms are kept exact, as integer combinations of the       *)
(* logarithms of the primes, so that two scores that are equal as real     *)
(* numbers are equal in the model.  The float the code computes for a      *)
(* score differs from the real number by a rounding error that depends on  *)
(* the order in which the mutual informations of the pairs are added, that *)
(* is on the order of the set; two sets whose scores are equal as real     *)
(* numbers can so compare either way in the code.  The variable rounding   *)
(* holds the symptom sets whose score comes out above (1) or below (-1)    *)
(* the real number in the call; it only decides between equal scores.  On  *)
(* the catalogs of Spec the floats of two sets that the code compares are  *)
(* equal whenever the real numbers are, in every order of the additions,   *)
(* and rounding is empty; in a session every call draws its rounding.      *)
(*                                                                         *)
(* Set order.  A Python set is iterated in an order that depends on the    *)
(* hash seed of the process and on how the set object was built; two sets  *)
(* of the same symptoms can be listed in opposite orders in one process.   *)
(* The variable order holds the listings to come as a tape: every          *)
(* list(...) or sorted(...) of a set reads the entry at the position of    *)
(* the tape, lists the set along it, and moves to the next entry.  A call  *)
(* of a deterministic method lists one set, the pool; Spec draws every     *)
(* listing of it.  The genetic method lists a set only to draw from the    *)
(* list or to go through all of it; every listing is an outcome there.     *)
(*                                                                         *)
(* Random numbers.  The code draws from the global np.random, which it     *)
(* never seeds.  A draw is a free choice among the values it can return,   *)
(* and an operator of the genetic method is the set of its outcomes over   *)
(* every draw, every listing and every order of equal scores in a sort.    *)
(*                                                                         *)
(* Population.  The population of the genetic method is a list of 50 or 49 *)
(* sets.  The code reads a position of it only through a drawn index, a    *)
(* sort by fitness, or max(); the model holds the list as a bag, how many  *)
(* times each individual is in it, and takes for the first of several      *)
(* equal individuals any of them.  The generations are run on the inputs   *)
(* whose individuals are at most two different sets; a session takes the   *)
(* genetic call in one step, as the set of its outcomes.                   *)
(***************************************************************************)
EXTENDS Integers, Sequences, FiniteSets, Bags, TLC

VARIABLES
    disease_symptoms,   \* self.disease_symptoms: disease -> set of symptoms
    order,              \* the listings of the Python sets to come: tape and position
    rounding,           \* rounding error of the float scores of the call's symptom sets
    current_symptoms,   \* confirmed symptoms (argument / session state)
    denied_symptoms,    \* denied symptoms (argument / session state)
    n,                  \* number of symptoms asked for (n / num_questions)
    method,             \* method string of the call
    pc,                 \* position of the caller / of the running call
    result,             \* outcome of the last completed call
    calls,              \* number of calls of calculate_next_n_symptoms made
    population,         \* _genetic_algorithm: population
    bred,               \* _genetic_algorithm: new_population before local search
    generation,         \* _genetic_algorithm: generations completed
    mutation_rate,      \* _genetic_algorithm: mutation_rate, its decimal digits in pairs
    first_result,       \* history: outcome of the first completed call
    scores,             \* last value of get_disease_match_scores
    max_rounds,         \* multi_round_diagnosis: max_rounds
    probability_threshold,  \* multi_round_diagnosis: probability_threshold
    round_count         \* multi_round_diagnosis: round_count, 0 before the loop

engine == << disease_symptoms >>
environment == << order, rounding >>
arguments == << current_symptoms, denied_symptoms, n, method >>
genetic == << population, bred, generation, mutation_rate >>
session == << max_rounds, probability_threshold, round_count >>

vars == << disease_symptoms, order, rounding, current_symptoms, denied_symptoms,
           n, method, pc, result, calls, population, bred, generation,
           mutation_rate, first_result, scores, max_rounds,
           probability_threshold, round_count >>

----------------------------------------------------------------------------
(* Numbers *)

\* a multiple of the denominators of the coverage of the catalogs used here,
\* so that equal coverages are equal integers
Scale == 720 * 10000
ScoreUnit == 40 * Scale

\* a / b rounded to the nearest integer, b > 0
DivRound(a, b) ==
    IF a >= 0 THEN (2 * a + b) \div (2 * b)
    ELSE -((2 * (-a) + b) \div (2 * b))

\* the function f as a table of its values (TLC evaluates the body of a
\* function expression anew at each application otherwise)
Table(f) == f @@ << >>

\* the one element of a singleton; The({ e(x) : x \in { v } }) is e with x
\* bound to the value of v, computed once
The(S) == CHOOSE v \in S : TRUE

RECURSIVE SumOver(_, _)
SumOver(S, f) ==
    IF S = {} THEN 0
    ELSE LET e == CHOOSE e \in S : TRUE
         IN  f[e] + SumOver(S \ {e}, f)

RECURSIVE ProductOver(_, _)
ProductOver(S, f) ==
    IF S = {} THEN 1
    ELSE LET e == CHOOSE e \in S : TRUE
         IN  f[e] * ProductOver(S \ {e}, f)

\* quotient and remainder of a * b by c, for a >= 0, b >= 0, c > 0, computed
\* bit by bit of b so that no intermediate value exceeds 3 * c
RECURSIVE MulDivMod(_, _, _)
MulDivMod(a, b, c) ==
    IF b = 0 THEN [ q |-> 0, r |-> 0 ]
    ELSE The({ The({ [ q |-> 2 * half.q + (b % 2) * (a \div c) + (x \div c), r |-> x % c ]
                     : x \in { 2 * half.r + (b % 2) * (a % c) } })
               : half \in { MulDivMod(a, b \div 2, c) } })

\* a * b / c rounded to the nearest integer, for a >= 0, b >= 0, c > 0
MulDiv(a, b, c) ==
    The({ IF 2 * m.r >= c THEN m.q + 1 ELSE m.q : m \in { MulDivMod(a, b, c) } })

\* math.log2 of a positive integer is kept exact: log2(k) is the sum of
\* e[p] * log2(p) over the primes p, with e[p] the exponent of p in k.  A
\* number of this form is a function from Primes to the integers; the primes
\* up to 13 serve the arguments up to 16 that catalogs of at most four
\* diseases give.
Primes == { 2, 3, 5, 7, 11, 13 }

RECURSIVE Exponent(_, _)
Exponent(k, p) == IF k % p = 0 THEN 1 + Exponent(k \div p, p) ELSE 0

\* math.log2(k)
Log2(k) == [ p \in Primes |-> Exponent(k, p) ]

LogZero == [ p \in Primes |-> 0 ]
LogAdd(u, v) == [ p \in Primes |-> u[p] + v[p] ]
LogSub(u, v) == [ p \in Primes |-> u[p] - v[p] ]
LogTimes(c, v) == [ p \in Primes |-> c * v[p] ]
LogSum(S, f) == [ p \in Primes |-> SumOver(S, [ e \in S |-> f[e][p] ]) ]

\* log2(p) * Scale for the odd primes: whole part and millionths
Log2PrimeWhole == [ p \in Primes \ { 2 } |->
    CASE p = 3 -> 11411730 [] p = 5 -> 16717882 [] p = 7 -> 20212955
      [] p = 11 -> 24907907 [] p = 13 -> 26643165 ]
Log2PrimeMillionths == [ p \in Primes \ { 2 } |->
    CASE p = 3 -> 5192 [] p = 5 -> 283189 [] p = 7 -> 438815
      [] p = 11 -> 654189 [] p = 13 -> 970616 ]

\* the value of the number v times Scale, rounded
LogValue(v) ==
    v[2] * Scale
    + SumOver(Primes \ { 2 },
              [ p \in Primes \ { 2 } |->
                  v[p] * Log2PrimeWhole[p] + DivRound(v[p] * Log2PrimeMillionths[p], 1000000) ])

----------------------------------------------------------------------------
(* Catalogs, set iteration order and rounding *)

\* __init__: self.all_symptoms = set().union(*disease_symptoms.values())
all_symptoms(cat) == UNION { cat[d] : d \in DOMAIN cat }

\* the elements of S in the order of the list l
ListAlong(S, l) ==
    LET In(s) == s \in S
    IN  SelectSeq(l, In)

\* list(S), sorted(S, ...), iteration over S: the listing that the process
\* gives the set object now, which is S along the entry of the tape ord.tape
\* at the position ord.pos (counted from 0)
ToList(S, ord) == ListAlong(S, ord.tape[ord.pos + 1])

\* the listings to come after a list(...): the tape at its next position,
\* read in a circle
NextList(ord) == [ ord EXCEPT !.pos = (ord.pos + 1) % Len(ord.tape) ]

\* a process that lists every set along l
Listing(l) == [ tape |-> << l >>, pos |-> 0 ]

\* the lists that hold every element of S once
Listings(S) ==
    { l \in [ 1..Cardinality(S) -> S ] : \A i, j \in 1..Cardinality(S) : l[i] = l[j] => i = j }

SeqToSet(l) == { l[i] : i \in 1..Len(l) }

\* the rounding error of the float score of a symptom set, -1, 0 or 1: 0 for
\* a set outside the domain of rnd
Ulp(rnd, symptoms) == IF symptoms \in DOMAIN rnd THEN rnd[symptoms] ELSE 0

\* no score rounded
NoSets == [ S \in {} |-> 0 ]

\* the scores of the sets in marked come out above the real number
RoundedUp(marked) == [ S \in marked |-> 1 ]

\* catalogs the engine is constructed with in the calls on drawn inputs
Catalog1 == [ d \in { "A", "B", "C" } |->
                CASE d = "A" -> { "x", "y" }
                  [] d = "B" -> { "y", "z" }
                  [] d = "C" -> { "x", "z", "w" } ]
Catalog2 == [ d \in { "A", "B", "E" } |->
                CASE d = "A" -> { "x", "y", "z" }
                  [] d = "B" -> { "z", "w" }
                  [] d = "E" -> { } ]
Catalogs == { Catalog1, Catalog2 }
\* a symptom of no catalog
Foreign == { "q" }

\* final.py: the catalog of multi_round_diagnosis
SessionCatalog == [ d \in { "cold", "flu", "covid", "pneumonia" } |->
    CASE d = "cold" -> { "fever", "cough", "runny_nose", "headache" }
      [] d = "flu" -> { "high_fever", "cough", "muscle_ache", "fatigue", "headache" }
      [] d = "covid" -> { "fever", "dry_cough", "fatigue", "loss_of_smell", "loss_of_taste" }
      [] d = "pneumonia" -> { "high_fever", "sputum", "chest_pain", "dyspnea", "fatigue" } ]
\* final.py: current_symptoms at the start of multi_round_diagnosis
SessionInitialSymptoms == { "fever", "cough" }

----------------------------------------------------------------------------
(* Scoring engine *)

\* _get_candidate_diseases: the diseases sharing a symptom with current.
\* The returned dict maps each of them to cat[d]; the model keeps the keys.
get_candidate_diseases(cat, current) ==
    { d \in DOMAIN cat : (current \cap cat[d]) # {} }

\* _split_by_symptoms: the groups of candidates with equal membership vector
split_by_symptoms(cat, symptoms, cands) ==
    { { e \in cands : (symptoms \cap cat[e]) = (symptoms \cap cat[d]) } : d \in cands }

\* _calculate_total_information_gain: initial_entropy - conditional_entropy,
\* with conditional_entropy the sum of - prob * log2(prob) over the groups,
\* prob = len(subgroup) / total.  Both are multiplied by total to stay exact
\* and the difference is divided by total and rounded at the end.
calculate_total_information_gain(cat, symptoms, cands) ==
    IF Cardinality(cands) = 0 THEN 0
    ELSE LET total == Cardinality(cands)
             initial_entropy == LogTimes(total, Log2(total))
             subgroups == split_by_symptoms(cat, symptoms, cands)
             plogp == [ g \in subgroups |->
                          LogTimes(Cardinality(g),
                                   LogSub(Log2(Cardinality(g)), Log2(total))) ]
             conditional_entropy == LogSub(LogZero, LogSum(subgroups, plogp))
         IN  DivRound(LogValue(LogSub(initial_entropy, conditional_entropy)), total)

\* _calculate_coverage_score: the mean over the candidates of
\* len(symptoms & disease_symptoms) / len(disease_symptoms), as one fraction
\* over the product of the sizes, rounded once
calculate_coverage_score(cat, symptoms, cands) ==
    IF cands = {} THEN 0
    ELSE LET size == [ d \in cands |-> Cardinality(cat[d]) ]
             sizes == ProductOver(cands, size)
             total_coverage == SumOver(cands,
                 [ d \in cands |-> Cardinality(symptoms \cap cat[d]) * (sizes \div size[d]) ])
         IN  MulDiv(total_coverage, Scale, sizes * Cardinality(cands))

\* _calculate_mutual_information, over the whole catalog, times total:
\* count_both * log2(p_both / (p_s1 * p_s2)), where the quotient of the
\* probabilities is count_both * total / (count_s1 * count_s2)
calculate_mutual_information(cat, symptom1, symptom2) ==
    LET total == Cardinality(DOMAIN cat)
        count_both == Cardinality({ d \in DOMAIN cat : symptom1 \in cat[d] /\ symptom2 \in cat[d] })
        count_s1 == Cardinality({ d \in DOMAIN cat : symptom1 \in cat[d] })
        count_s2 == Cardinality({ d \in DOMAIN cat : symptom2 \in cat[d] })
    IN  IF count_both = 0 THEN LogZero
        ELSE LogTimes(count_both, LogSub(Log2(count_both * total), Log2(count_s1 * count_s2)))

\* combinations(symptoms, 2)
Pairs(symptoms) == { { s1, s2 } : s1 \in symptoms, s2 \in symptoms } \ { { s } : s \in symptoms }

\* calculate_mutual_information for every pair of symptoms of the catalog
MutualInformationTable ==
    Table([ cat \in Catalogs \cup { SessionCatalog } |->
        Table([ p \in Pairs(all_symptoms(cat) \cup Foreign) |->
            LET s1 == CHOOSE s \in p : TRUE
                s2 == CHOOSE s \in p : s # s1
            IN  calculate_mutual_information(cat, s1, s2) ]) ])

\* calculate_mutual_information of a pair: read from the table where the table
\* holds it, computed otherwise
PairInformation(cat, p) ==
    IF cat \in DOMAIN MutualInformationTable /\ p \in DOMAIN MutualInformationTable[cat]
    THEN MutualInformationTable[cat][p]
    ELSE LET s1 == CHOOSE s \in p : TRUE
             s2 == CHOOSE s \in p : s # s1
         IN  calculate_mutual_information(cat, s1, s2)

\* _calculate_independence_score: 1.0 / (1.0 + mutual_info), with mutual_info
\* the sum over the pairs, kept exact and times total.  The quotient is
\* total * Scale / (total * Scale + total * mutual_info * Scale) of Scale.
\* Where 1.0 + mutual_info is 0 the code raises ZeroDivisionError; no catalog
\* used here has such a set, and the division below is undefined there.
calculate_independence_score(cat, symptoms) ==
    IF Cardinality(symptoms) <= 1 THEN Scale
    ELSE The({ The({ IF denom > 0 THEN MulDiv(total * Scale, Scale, denom)
                     ELSE - MulDiv(total * Scale, Scale, - denom)
                     : denom \in { total * Scale
                                   + LogValue(LogSum(Pairs(symptoms),
                                       [ p \in Pairs(symptoms) |-> PairInformation(cat, p) ])) } })
               : total \in { Cardinality(DOMAIN cat) } })

\* 0.4 * info_gain + 0.4 * coverage_score + 0.2 * independence_score of
\* _calculate_combined_score, in units of 1 / ScoreUnit, without the rounding
\* error of the float
CombinedScoreExact(cat, symptoms, cands) ==
    16 * calculate_total_information_gain(cat, symptoms, cands)
    + 16 * calculate_coverage_score(cat, symptoms, cands)
    + 8 * calculate_independence_score(cat, symptoms)

\* _calculate_combined_score: the float the process computes
calculate_combined_score(cat, rnd, symptoms, cands) ==
    CombinedScoreExact(cat, symptoms, cands) + 2 * Ulp(rnd, symptoms)

\* The scores of the symptom sets and candidate sets the calls meet, computed
\* once: confirmed sets, with any proposal added, and the candidates of the
\* confirmed sets
TableSymptomSets(cat) ==
    IF cat = SessionCatalog
    THEN { SessionInitialSymptoms \cup X : X \in SUBSET all_symptoms(cat) }
    ELSE SUBSET (all_symptoms(cat) \cup Foreign)
ScoreTable ==
    Table([ cat \in Catalogs \cup { SessionCatalog } |->
        Table([ cands \in { get_candidate_diseases(cat, c) : c \in TableSymptomSets(cat) } |->
            Table([ symptoms \in TableSymptomSets(cat) |->
                CombinedScoreExact(cat, symptoms, cands) ]) ]) ])

\* self._calculate_combined_score(symptoms, candidate_diseases) as the selectors
\* call it: read from the table where the table holds it, computed otherwise
Score(cat, rnd, symptoms, cands) ==
    IF /\ cat \in DOMAIN ScoreTable
       /\ cands \in DOMAIN ScoreTable[cat]
       /\ symptoms \in DOMAIN ScoreTable[cat][cands]
    THEN ScoreTable[cat][cands][symptoms] + 2 * Ulp(rnd, symptoms)
    ELSE calculate_combined_score(cat, rnd, symptoms, cands)

\* _calculate_symptom_importance
calculate_symptom_importance(cat, rnd, symptom, current, cands) ==
    Score(cat, rnd, current \cup {symptom}, cands)

----------------------------------------------------------------------------
(* Results of a call *)

Ok(value) == [ kind |-> "ok", value |-> value, error |-> "" ]
Raise(error) == [ kind |-> "error", value |-> {}, error |-> error ]
NoResult == [ kind |-> "none", value |-> {}, error |-> "" ]

----------------------------------------------------------------------------
(* Greedy and exhaustive selectors *)

\* symptom_score of _greedy_selection and _exhaustive_search: the importance,
\* halved for a denied symptom
symptom_score(cat, rnd, symptom, current, cands, denied) ==
    LET score == calculate_symptom_importance(cat, rnd, symptom, current, cands)
    IN  IF symptom \in denied THEN score \div 2 ELSE score

\* list.sort(key, reverse=True) / sorted(..., reverse=True): stable, descending
RECURSIVE InsertDesc(_, _, _)
InsertDesc(l, e, key) ==
    IF l = << >> THEN << e >>
    ELSE IF key[Head(l)] >= key[e] THEN << Head(l) >> \o InsertDesc(Tail(l), e, key)
    ELSE << e >> \o l

RECURSIVE SortDesc(_, _)
SortDesc(l, key) ==
    IF l = << >> THEN << >>
    ELSE InsertDesc(SortDesc(SubSeq(l, 1, Len(l) - 1), key), l[Len(l)], key)

\* the first position of l whose key is the largest (score > best_score keeps
\* the earlier one on a tie); l is not empty
FirstMax(l, key) ==
    CHOOSE i \in 1..Len(l) :
        /\ \A j \in 1..Len(l) : key[l[j]] <= key[l[i]]
        /\ \A j \in 1..(i - 1) : key[l[j]] < key[l[i]]

RemoveAt(l, i) == SubSeq(l, 1, i - 1) \o SubSeq(l, i + 1, Len(l))

\* the loop "for _ in range(n)" of _greedy_selection, from its k-th pass on.
\* "if best_symptom:" leaves a best symptom that is the empty string
\* unselected and in the list.
RECURSIVE GreedyLoop(_, _, _, _, _, _, _, _)
GreedyLoop(cat, rnd, current, cands, denied, k, selected, symptoms_list) ==
    IF k <= 0 \/ symptoms_list = << >> THEN [ selected |-> selected, rest |-> symptoms_list ]
    ELSE The({ IF symptoms_list[i] # ""
               THEN GreedyLoop(cat, rnd, current, cands, denied, k - 1,
                               selected \cup { symptoms_list[i] }, RemoveAt(symptoms_list, i))
               ELSE GreedyLoop(cat, rnd, current, cands, denied, k - 1, selected, symptoms_list)
               : i \in { FirstMax(symptoms_list,
                            Table([ s \in SeqToSet(symptoms_list) |->
                                LET score == Score(cat, rnd, current \cup selected \cup {s}, cands)
                                IN  IF s \in denied THEN score \div 2 ELSE score ])) } })

\* the backfill of _greedy_selection: the best remaining ones until n are held
RECURSIVE Backfill(_, _, _)
Backfill(selected, remaining, k) ==
    IF remaining = << >> \/ Cardinality(selected) >= k THEN selected
    ELSE Backfill(selected \cup { Head(remaining) }, Tail(remaining), k)

\* symptom_score for every symptom of the pool
SymptomScores(cat, rnd, current, cands, available, denied) ==
    Table([ s \in available |-> symptom_score(cat, rnd, s, current, cands, denied) ])

\* _greedy_selection after symptoms_list.sort(...), key holding symptom_score
GreedySelect(cat, rnd, current, cands, denied, k, symptoms_list, key) ==
    The({ IF Cardinality(loop.selected) < k
          THEN Backfill(loop.selected, SortDesc(loop.rest, key), k)
          ELSE loop.selected
          : loop \in { GreedyLoop(cat, rnd, current, cands, denied, k, {}, symptoms_list) } })

\* _greedy_selection
greedy_selection(cat, ord, rnd, current, cands, available, k, denied) ==
    The({ GreedySelect(cat, rnd, current, cands, denied, k,
                       SortDesc(ToList(available, ord), key), key)
          : key \in { SymptomScores(cat, rnd, current, cands, available, denied) } })

\* itertools.combinations(l, k) for k >= 0, in its order
RECURSIVE Combinations(_, _)
Combinations(l, k) ==
    IF k = 0 THEN << << >> >>
    ELSE IF Len(l) < k THEN << >>
    ELSE LET with == Combinations(Tail(l), k - 1)
         IN  [ i \in 1..Len(with) |-> << Head(l) >> \o with[i] ]
             \o Combinations(Tail(l), k)

\* the score without the denial penalty
PenalisedScoreNoPenalty(cat, rnd, current, cands, denied, combo) ==
    Score(cat, rnd, current \cup combo, cands)

\* the denial-penalised score of _exhaustive_search and of the genetic fitness:
\* combined score minus 0.2 for each denied symptom held
PenalisedScore(cat, rnd, current, cands, denied, combo) ==
    Score(cat, rnd, current \cup combo, cands)
    - Cardinality(combo \cap denied) * (ScoreUnit \div 5)

\* the loop of _exhaustive_search over the combinations: the first one of the
\* largest penalised score, set() when there is none
BestCombination(cat, rnd, current, cands, denied, combos) ==
    IF combos = << >> THEN {}
    ELSE SeqToSet(combos[FirstMax([ i \in 1..Len(combos) |-> i ],
                      Table([ i \in 1..Len(combos) |->
                          PenalisedScore(cat, rnd, current, cands, denied, SeqToSet(combos[i])) ]))])

\* _exhaustive_search; combinations(sorted_symptoms, n) raises for n < 0
exhaustive_search(cat, ord, rnd, current, cands, available, k, denied) ==
    IF k < 0 THEN Raise("ValueError")
    ELSE Ok(BestCombination(cat, rnd, current, cands, denied,
                Combinations(SortDesc(ToList(available, ord),
                                      SymptomScores(cat, rnd, current, cands, available, denied)),
                             k)))

----------------------------------------------------------------------------
(* Draws of np.random *)

\* np.random is one generator for the whole process: the code neither seeds
\* it nor takes a generator from its caller, and every draw advances it.  A
\* draw is a free choice among the values the draw can return, and an
\* operator that draws is the set of its outcomes.

\* np.random.random() < rate: the draw is a float of [0, 1), which can be
\* below a rate above 0 and can be at or above a rate below 1
RandBelow(rate) == { hit \in BOOLEAN : hit => \E i \in 1..Len(rate) : rate[i] # 0 }

\* np.random.shuffle(l), and np.random.choice(l, k, replace=False): the first
\* k elements of a permutation of l
RECURSIVE RandPermutation(_, _)
RandPermutation(l, k) ==
    IF k <= 0 \/ l = << >> THEN { << >> }
    ELSE UNION { { << l[i] >> \o rest : rest \in RandPermutation(RemoveAt(l, i), k - 1) }
                 : i \in 1..Len(l) }

\* the decimal fraction digits, two decimals to a digit, times the natural
\* number c: the digits of the fraction part and the whole part
RECURSIVE TimesSmall(_, _)
TimesSmall(digits, c) ==
    IF digits = << >> THEN [ digits |-> << >>, carry |-> 0 ]
    ELSE The({ The({ [ digits |-> << x % 100 >> \o rest.digits, carry |-> x \div 100 ]
                     : x \in { Head(digits) * c + rest.carry } })
               : rest \in { TimesSmall(Tail(digits), c) } })

----------------------------------------------------------------------------
(* Genetic selector *)

population_size == 50
generations == 30
elite_size == 5
tournament_size == 3

\* mutation_rate = 0.1: a rate is held exactly, by its decimals after the
\* point in pairs (<< 9, 50 >> is 0.0950)
InitialMutationRate == << 10 >>
\* the 0.01 of max(0.01, ...)
LeastMutationRate == << 1 >>
\* mutation_rate = max(0.01, mutation_rate * 0.95)
DecayMutationRate(rate) ==
    The({ The({ IF decayed[1] >= 1 THEN decayed ELSE LeastMutationRate
                : decayed \in { << times.carry >> \o times.digits } })
          : times \in { TimesSmall(rate, 95) } })

\* fitness of _genetic_algorithm
fitness(cat, rnd, current, cands, denied, individual) ==
    PenalisedScore(cat, rnd, current, cands, denied, individual)

\* the bags that are the sum of count bags, each of them any bag of S (the
\* sum of two halves, and of one more bag for an odd count)
RECURSIVE SumsOf(_, _)
SumsOf(S, count) ==
    IF count <= 0 THEN { EmptyBag }
    ELSE IF count = 1 THEN S
    ELSE The({ The({ IF count % 2 = 0 THEN even
                     ELSE { a (+) b : a \in even, b \in S }
                     : even \in { { a (+) b : a \in half, b \in half } } })
               : half \in { SumsOf(S, count \div 2) } })

\* the bags of count elements of S: count entries of a list, each of them any
\* element of S
BagsOf(S, count) ==
    The({ SumsOf(singles, count) : singles \in { { SetToBag({ e }) : e \in S } } })

\* the bag pop without the copies of e
Without(pop, e) == [ x \in BagToSet(pop) \ { e } |-> pop[x] ]

\* population = [set(np.random.choice(remaining_list, n, replace=False)) ...]:
\* count individuals, each of them k different symptoms of the list; k >= 0
\* here (a negative size raises before)
InitPopulation(remaining_list, k, count) ==
    BagsOf({ SeqToSet(one) : one \in RandPermutation(remaining_list, k) }, count)

\* fitness_scores = [fitness(individual) for individual in population]: the
\* score of every individual of the population
FitnessScores(cat, rnd, current, cands, denied, pop) ==
    Table([ individual \in BagToSet(pop) |->
              fitness(cat, rnd, current, cands, denied, individual) ])

\* elite_size individuals of the list (all of a shorter list), whatever their
\* fitness
EliteIndividualsFirst(pop, fitness_scores) ==
    { elite \in BagsOf(BagToSet(pop), IF BagCardinality(pop) < elite_size
                                      THEN BagCardinality(pop) ELSE elite_size) :
        elite \sqsubseteq pop }

\* elite_individuals = [population[i] for i in np.argsort(fitness_scores)[-elite_size:]]:
\* elite_size individuals (all of a shorter list) that no other one of the
\* list beats.  np.argsort does not say which of several equal scores it
\* puts last, so every such choice is an outcome.
EliteIndividuals(pop, fitness_scores) ==
    { elite \in EliteIndividualsFirst(pop, fitness_scores) :
        \A a \in BagToSet(elite), b \in BagToSet(pop (-) elite) :
            fitness_scores[a] >= fitness_scores[b] }

\* _tournament_select: tournament_size positions of the list drawn with
\* replacement, here the individuals at them; np.argmax takes the first of
\* the fittest
tournament_select(pop, fitness_scores) ==
    LET pos == [ i \in 1..tournament_size |-> i ]
    IN  { indices[FirstMax(pos, [ i \in 1..tournament_size |-> fitness_scores[indices[i]] ])]
          : indices \in [ 1..tournament_size -> BagToSet(pop) ] }

\* a crossover that keeps the whole union of the parents
crossover_uncut(parent1, parent2, k) == { parent1 \cup parent2 }

\* _crossover: the union of the parents, listed, shuffled and cut to k when
\* larger.  The "while len(combined) < n" loop finds nothing left to add
\* (combined is then the whole union) and breaks at once.  Both children are
\* this set.
crossover(parent1, parent2, k) ==
    IF Cardinality(parent1 \cup parent2) > k
    THEN UNION { { SeqToSet(cut) : cut \in RandPermutation(combined, k) }
                 : combined \in Listings(parent1 \cup parent2) }
    ELSE { parent1 \cup parent2 }

\* _mutate: on a hit, with a symptom left outside the individual, a drawn
\* symptom of the individual is replaced by a drawn one of
\* available_symptoms - individual; err when np.random.choice is given the
\* empty list(individual)
mutate(individual, available, rate) ==
    UNION { IF ~ hit \/ available \ individual = {}
            THEN { [ val |-> individual, err |-> FALSE ] }
            ELSE IF individual = {}
            THEN { [ val |-> individual, err |-> TRUE ] }
            ELSE { [ val |-> (individual \ { symptom_to_replace }) \cup { new_symptom },
                     err |-> FALSE ]
                   : symptom_to_replace \in individual, new_symptom \in available \ individual }
            : hit \in RandBelow(rate) }

\* remaining_symptoms = self.all_symptoms - current_symptoms - individual
RemainingSymptoms(cat, current, individual) == (all_symptoms(cat) \ current) \ individual

\* one pass of the loop of _local_search: symptom is replaced by new_symptom
\* and the best individual so far is kept unless the new one scores higher
LocalSearchStep(cat, rnd, individual, current, cands, symptom, new_symptom, best) ==
    The({ The({ IF score > best.score
                THEN [ individual |-> new_individual, score |-> score ]
                ELSE best
                : score \in { Score(cat, rnd, current \cup new_individual, cands) } })
          : new_individual \in { (individual \ { symptom }) \cup { new_symptom } } })

\* the loop of _local_search over list(individual), from the symptoms todo
\* on: the best individuals so far that the draws of new_symptom so far can
\* have left, after one more pass
RECURSIVE LocalSearchLoop(_, _, _, _, _, _, _)
LocalSearchLoop(cat, rnd, individual, current, cands, todo, bests) ==
    IF todo = << >> THEN { best.individual : best \in bests }
    ELSE IF RemainingSymptoms(cat, current, individual) = {}
    THEN LocalSearchLoop(cat, rnd, individual, current, cands, Tail(todo), bests)
    ELSE LocalSearchLoop(cat, rnd, individual, current, cands, Tail(todo),
             { LocalSearchStep(cat, rnd, individual, current, cands, Head(todo), new_symptom, best)
               : best \in bests,
                 new_symptom \in RemainingSymptoms(cat, current, individual) })

\* _local_search, for every listing of the individual
local_search(cat, rnd, individual, current, cands) ==
    UNION { LocalSearchLoop(cat, rnd, individual, current, cands, todo,
                { [ individual |-> individual,
                    score |-> Score(cat, rnd, current \cup individual, cands) ] })
            : todo \in Listings(individual) }

\* the outcome of a breeding loop that an exception of _mutate ended
Failed == [ val |-> EmptyBag, err |-> TRUE ]

\* one pass of the breeding loop: two parents by tournament, their crossover,
\* the mutation of the two children (both start as the same set)
BreedPair(pop, fitness_scores, available, k, rate) ==
    The({ UNION { UNION { { IF child1.err \/ child2.err THEN Failed
                            ELSE [ val |-> SetToBag({ child1.val }) (+) SetToBag({ child2.val }),
                                   err |-> FALSE ]
                            : child1 \in mutate(child, available, rate),
                              child2 \in mutate(child, available, rate) }
                          : child \in crossover(parents[1], parents[2], k) }
                  : parents \in selected \X selected }
          : selected \in { tournament_select(pop, fitness_scores) } })

\* count passes of the breeding loop, each with one of the outcomes pairs:
\* the children of count passes without an exception, or the exception of a
\* pass, which ends the loop
BreedPasses(pairs, count) ==
    The({ { [ val |-> children, err |-> FALSE ] : children \in SumsOf(vals, count) }
          : vals \in { { pair.val : pair \in { pair \in pairs : ~ pair.err } } } })
    \cup { Failed : pair \in { pair \in pairs : pair.err /\ count >= 1 } }

\* the breeding loop of one generation: the children of count passes
BreedLoop(pop, fitness_scores, available, k, rate, count) ==
    The({ BreedPasses(pairs, count)
          : pairs \in { BreedPair(pop, fitness_scores, available, k, rate) } })

\* population = [self._local_search(individual, ...) for individual in population]:
\* every copy of every individual replaced by one of the outcomes of
\* _local_search on it, searched[individual]
RECURSIVE LocalSearchAll(_, _)
LocalSearchAll(searched, pop) ==
    IF BagToSet(pop) = {} THEN { EmptyBag }
    ELSE The({ { some (+) others
                 : some \in BagsOf(searched[individual], CopiesIn(individual, pop)),
                   others \in LocalSearchAll(searched, Without(pop, individual)) }
               : individual \in { CHOOSE e \in BagToSet(pop) : TRUE } })

\* a pair count that rounds the odd remainder up
BreedingRoundsRoundedUp == (population_size - elite_size + 1) \div 2

\* for _ in range((population_size - elite_size) // 2): two children per pass
BreedingRounds == (population_size - elite_size) \div 2

\* one pass of "for generation in range(generations)" up to new_population
Breed(cat, rnd, pop, current, cands, available, k, denied, rate) ==
    The({ { IF children.err THEN Failed
            ELSE [ val |-> elite_individuals (+) children.val, err |-> FALSE ]
            : elite_individuals \in EliteIndividuals(pop, fitness_scores),
              children \in BreedLoop(pop, fitness_scores, available, k, rate, BreedingRounds) }
          : fitness_scores \in { FitnessScores(cat, rnd, current, cands, denied, pop) } })

\* best_individual = max(population, key=fitness): one of the fittest, the
\* first of them in the list
BestIndividual(cat, rnd, current, cands, denied, pop) ==
    The({ { best \in BagToSet(pop) : \A other \in BagToSet(pop) : score[other] <= score[best] }
          : score \in { FitnessScores(cat, rnd, current, cands, denied, pop) } })

----------------------------------------------------------------------------
(* calculate_next_n_symptoms and get_disease_match_scores *)

Methods == { "greedy", "exhaustive", "genetic" }

\* the pool without the subtraction of the confirmed symptoms
AvailableSymptomsAll(cat, current, denied) == all_symptoms(cat)

\* the pool with the denied symptoms taken out as well
AvailableSymptomsNotDenied(cat, current, denied) == (all_symptoms(cat) \ current) \ denied

\* available_symptoms = self.all_symptoms - current_symptoms: the denied
\* symptoms stay in
AvailableSymptoms(cat, current, denied) == all_symptoms(cat) \ current

\* an unknown method answered with an empty proposal
UnknownMethodDefault(m) == Ok({})

\* raise ValueError("Unknown method")
UnknownMethod(m) == Raise("Unknown method")

\* calculate_next_n_symptoms(current, k, m, denied) up to its return or, with
\* kind "genetic", up to the call of _genetic_algorithm
calculate_next_n_symptoms(cat, ord, rnd, current, k, m, denied) ==
    LET candidate_diseases == get_candidate_diseases(cat, current)
        available_symptoms == AvailableSymptoms(cat, current, denied)
    IN  IF Cardinality(available_symptoms) < k THEN Ok(available_symptoms)
        ELSE IF m = "greedy"
        THEN Ok(greedy_selection(cat, ord, rnd, current, candidate_diseases,
                                 available_symptoms, k, denied))
        ELSE IF m = "exhaustive"
        THEN exhaustive_search(cat, ord, rnd, current, candidate_diseases,
                               available_symptoms, k, denied)
        ELSE IF m = "genetic"
        THEN [ kind |-> "genetic", value |-> {}, error |-> "" ]
        ELSE UnknownMethod(m)

\* the call lists the pool: greedy and exhaustive do, once, when the pool
\* holds n symptoms or more
ListsThePool(cat, current, k, m, denied) ==
    /\ Cardinality(AvailableSymptoms(cat, current, denied)) >= k
    /\ m \in { "greedy", "exhaustive" }

\* _genetic_algorithm up to the generation loop: the initial population.
\* np.random.choice(remaining_list, k, replace=False) raises for k < 0.
genetic_algorithm_start(cat, ord, current, k, denied) ==
    IF k < 0 THEN { [ err |-> TRUE, population |-> EmptyBag ] }
    ELSE { [ err |-> FALSE, population |-> init ]
           : init \in InitPopulation(ToList(AvailableSymptoms(cat, current, denied), ord),
                                     k, population_size) }

\* one pass of the generation loop of _genetic_algorithm: the new population
\* before and after the local search of its individuals
Generation(cat, rnd, pop, current, k, denied, rate) ==
    The({ The({ UNION { IF new_population.err
                        THEN { [ err |-> TRUE, bred |-> EmptyBag, population |-> EmptyBag ] }
                        ELSE { [ err |-> FALSE, bred |-> new_population.val,
                                 population |-> after ]
                               : after \in LocalSearchAll(searched, new_population.val) }
                        : new_population \in new_populations }
                : searched \in { Table([ individual \in UNION { BagToSet(new_population.val)
                                                                : new_population \in new_populations }
                                           |-> local_search(cat, rnd, individual, current,
                                                            get_candidate_diseases(cat, current)) ]) } })
          : new_populations \in { Breed(cat, rnd, pop, current,
                                        get_candidate_diseases(cat, current),
                                        AvailableSymptoms(cat, current, denied),
                                        k, denied, rate) } })

\* _genetic_algorithm as a whole, for a pool of k symptoms or more: the
\* outcomes of the call.  The individuals of every generation are sets of k
\* symptoms of the pool, and the one returned is of the final population,
\* whose individuals come out of _local_search: an outcome of _local_search
\* on some individual, with real scores, or with the float of the outcome
\* rounded above those of the sets of equal real score.  _mutate raises on
\* a hit when the individuals are empty and the pool is not.
genetic_algorithm(cat, ord, current, cands, available, k, denied) ==
    IF k < 0 THEN { Raise("ValueError") }
    ELSE The({ The({ { Ok(best)
                       : best \in plain \cup
                             { X \in individuals \ plain :
                                 \E T \in individuals :
                                     X \in local_search(cat, RoundedUp({ current \cup X }), T,
                                                        current, cands) } }
                     \cup { Raise("ValueError")
                            : T \in { T \in individuals :
                                        \E child \in mutate(T, available, InitialMutationRate) :
                                            child.err } }
                     : plain \in { UNION { local_search(cat, NoSets, T, current, cands)
                                           : T \in individuals } } })
               : individuals \in { { SeqToSet(one)
                                     : one \in RandPermutation(ToList(available, ord), k) } } })

\* the count of the confirmed symptoms, in the disease or not
MatchCountAll(current, symptoms) == Cardinality(current)

\* match_count = len(current_symptoms & symptoms)
MatchCount(current, symptoms) == Cardinality(current \cap symptoms)

\* get_disease_match_scores: match_count / total_count, or 0.0 for a disease
\* without symptoms; a rate is the fraction num / den
get_disease_match_scores(cat, current) ==
    [ d \in DOMAIN cat |->
        LET match_count == MatchCount(current, cat[d])
            total_count == Cardinality(cat[d])
        IN  IF total_count > 0 THEN [ num |-> match_count, den |-> total_count ]
            ELSE [ num |-> 0, den |-> 1 ] ]

NoScores == << >>

----------------------------------------------------------------------------
(* Steps of a call *)

\* a call completes with outcome res
Complete(res) ==
    /\ result' = res
    /\ first_result' = IF first_result = NoResult THEN res ELSE first_result
    /\ pc' = "returned"

\* the call is entered with the arguments held in the state, in a process
\* whose listings to come are ord and whose roundings are rnd
EnterCall(ord, rnd) ==
    /\ rounding' = rnd
    /\ \E outcome \in { calculate_next_n_symptoms(disease_symptoms, ord, rnd, current_symptoms,
                                                   n, method, denied_symptoms) } :
          IF outcome.kind # "genetic"
          THEN /\ Complete(outcome)
               /\ order' = IF ListsThePool(disease_symptoms, current_symptoms, n, method,
                                           denied_symptoms)
                            THEN NextList(ord) ELSE ord
               /\ UNCHANGED genetic
          ELSE \E start \in genetic_algorithm_start(disease_symptoms, ord, current_symptoms,
                                                    n, denied_symptoms) :
                   /\ order' = NextList(ord)
                   /\ IF start.err
                      THEN Complete(Raise("ValueError")) /\ UNCHANGED genetic
                      ELSE /\ population' = start.population
                           /\ bred' = EmptyBag
                           /\ generation' = 0
                           /\ mutation_rate' = InitialMutationRate
                           /\ pc' = "genetic"
                           /\ UNCHANGED << result, first_result >>

\* one pass of the generation loop; an exception of _mutate ends the call
GeneticGeneration ==
    /\ pc = "genetic"
    /\ generation < generations
    /\ \E decayed \in { DecayMutationRate(mutation_rate) } :
       \E step \in Generation(disease_symptoms, rounding, population, current_symptoms, n,
                              denied_symptoms, mutation_rate) :
          IF step.err
          THEN /\ Complete(Raise("ValueError"))
               /\ UNCHANGED genetic
          ELSE /\ bred' = step.bred
               /\ population' = step.population
               /\ mutation_rate' = decayed
               /\ generation' = generation + 1
               /\ UNCHANGED << pc, result, first_result >>
    /\ UNCHANGED << engine, environment, arguments, calls, scores, session >>

\* the end of _genetic_algorithm: return the fittest of the final population
GeneticReturn ==
    /\ pc = "genetic"
    /\ generation = generations
    /\ \E best \in BestIndividual(disease_symptoms, rounding, current_symptoms,
                        get_candidate_diseases(disease_symptoms, current_symptoms),
                        denied_symptoms, population) :
          Complete(Ok(best))
    /\ UNCHANGED << engine, environment, arguments, calls, genetic, scores, session >>

----------------------------------------------------------------------------
(* Calls of the engine on drawn inputs *)

MaxN == 3
MaxCalls == 2

\* an iteration order of the symptoms of the drawn catalogs
Order1 == << "x", "y", "z", "w", "q" >>

NRange == { -1 } \cup (0..MaxN)

\* the inputs of the calls of the deterministic methods and of an unknown one
DirectInputs ==
    [ catalog : Catalogs,
      confirmed : (SUBSET { "x", "y", "z", "w" }) \cup { { "q" }, { "x", "q" } },
      denied : { {}, { "y" }, { "z", "w" }, { "x", "y", "z", "w" } },
      n : NRange, method : { "greedy", "exhaustive", "random" } ]

\* the processes of a call of a deterministic method: the call lists one set,
\* the pool, and a process may list it in any order
DirectOrders(input) ==
    { Listing(l) : l \in Listings(AvailableSymptoms(input.catalog, input.confirmed,
                                                    input.denied)) }

\* the inputs of the calls of the genetic method: those on which the call
\* ends before its generations (n below 0, or above the number of unconfirmed
\* symptoms) or the individuals are at most two different sets (n = 0, n the
\* number of unconfirmed symptoms, one symptom of two)
GeneticInputs ==
    { input \in [ catalog : Catalogs,
                  confirmed : { {}, { "w", "x" }, { "w", "y" }, { "x", "q" },
                                { "x", "y", "z", "w" } },
                  denied : { {}, { "y" }, { "z", "w" } },
                  n : NRange, method : { "genetic" } ] :
        \/ input.n <= 0
        \/ Cardinality(all_symptoms(input.catalog) \ input.confirmed) <= input.n
        \/ Cardinality(all_symptoms(input.catalog) \ input.confirmed) <= 2 }

\* the process of a genetic call: the call draws from the list of the pool
\* and never goes through it, so one listing stands for all
GeneticOrders(input) == { Listing(Order1) }

\* the state of the caller before its first call
Start(input, ord) ==
    /\ disease_symptoms = input.catalog
    /\ order = ord
    /\ rounding = NoSets
    /\ current_symptoms = input.confirmed
    /\ denied_symptoms = input.denied
    /\ n = input.n
    /\ method = input.method

Init ==
    /\ \/ \E input \in DirectInputs : \E ord \in DirectOrders(input) : Start(input, ord)
       \/ \E input \in GeneticInputs : \E ord \in GeneticOrders(input) : Start(input, ord)
    /\ pc = "idle"
    /\ result = NoResult
    /\ first_result = NoResult
    /\ calls = 0
    /\ population = EmptyBag
    /\ bred = EmptyBag
    /\ generation = 0
    /\ mutation_rate = InitialMutationRate
    /\ scores = NoScores
    /\ max_rounds = 0
    /\ probability_threshold = [ num |-> 1, den |-> 1 ]
    /\ round_count = 0

\* the caller calls calculate_next_n_symptoms on the drawn inputs
Call ==
    /\ pc \in { "idle", "returned" }
    /\ calls < MaxCalls
    /\ calls' = calls + 1
    /\ EnterCall(order, rounding)
    /\ UNCHANGED << engine, arguments, scores, session >>

\* the caller ends with get_disease_match_scores on the confirmed set
GetScores ==
    /\ pc \in { "idle", "returned" }
    /\ scores' = get_disease_match_scores(disease_symptoms, current_symptoms)
    /\ pc' = "scored"
    /\ UNCHANGED << engine, environment, arguments, result, calls, genetic, first_result, session >>

Next == Call \/ GetScores \/ GeneticGeneration \/ GeneticReturn

Spec == Init /\ [][Next]_vars

----------------------------------------------------------------------------
(* final.py: multi_round_diagnosis *)

MaxRounds == 3
MaxGeneticRounds == 2

\* iteration orders of the symptoms of the session catalog
SessionOrder ==
    << "fever", "cough", "runny_nose", "headache", "high_fever", "muscle_ache", "fatigue",
       "dry_cough", "loss_of_smell", "loss_of_taste", "sputum", "chest_pain", "dyspnea" >>

\* the ways the loop of _greedy_selection can go from its k-th pass on when,
\* among the symptoms whose real score is the largest, any one can be the one
\* kept (the one listed first, or the one whose float is rounded highest):
\* for every way the sets whose scores were the kept ones
RECURSIVE GreedyTies(_, _, _, _, _, _, _)
GreedyTies(cat, current, cands, denied, k, selected, pool) ==
    IF k <= 0 \/ pool = {} THEN { {} }
    ELSE The({ UNION { { { current \cup selected \cup { s } } \cup kept
                         : kept \in GreedyTies(cat, current, cands, denied, k - 1,
                                               selected \cup { s }, pool \ { s }) }
                       : s \in { s \in pool : \A t \in pool : key[t] <= key[s] } }
               : key \in { Table([ s \in pool |->
                                     LET score == Score(cat, NoSets, current \cup selected \cup {s},
                                                        cands)
                                     IN  IF s \in denied THEN score \div 2 ELSE score ]) } })

\* the same for _exhaustive_search: the combinations of the largest real score
ExhaustiveTies(cat, current, cands, denied, k, pool) ==
    The({ The({ { { current \cup c } : c \in { c \in combos : \A d \in combos : key[d] <= key[c] } }
                : key \in { Table([ c \in combos |->
                                      PenalisedScore(cat, NoSets, current, cands, denied, c) ]) } })
          : combos \in { { c \in SUBSET pool : Cardinality(c) = k } } })

\* the sets whose scores can be the kept ones in a call, one choice for every
\* proposal that the ties allow
Ties(cat, current, k, m, denied) ==
    LET pool == AvailableSymptoms(cat, current, denied)
        cands == get_candidate_diseases(cat, current)
        ways == IF Cardinality(pool) < k THEN { {} }
                ELSE IF m = "greedy" THEN GreedyTies(cat, current, cands, denied, k, {}, pool)
                ELSE IF m = "exhaustive" /\ k >= 0
                THEN ExhaustiveTies(cat, current, cands, denied, k, pool)
                ELSE { {} }
        proposals == { UNION way : way \in ways }
    IN  { CHOOSE way \in ways : UNION way = proposal : proposal \in proposals }

\* the processes a call of the session can run in, one for every proposal
\* that the ties allow.  Among sets of equal real score the code keeps the
\* one it meets first in the listing of the pool, or the one whose float is
\* rounded highest; either way is drawn here as a rounding that puts the
\* kept sets above the others, with the pool listed along SessionOrder.
RoundEnvironments(cat, current, k, m, denied) ==
    The({ IF Cardinality(ties) = 1
          THEN { [ order |-> Listing(SessionOrder), rounding |-> NoSets ] }
          ELSE { [ order |-> Listing(SessionOrder), rounding |-> RoundedUp(way) ] : way \in ties }
          : ties \in { Ties(cat, current, k, m, denied) } })

\* the arguments of multi_round_diagnosis and the listings to come
SessionInputs ==
    [ method : { "greedy", "exhaustive", "random" }, n : { 0, 2, 3, 4 },
      max_rounds : 0..MaxRounds,
      probability_threshold : { [ num |-> 1, den |-> 2 ], [ num |-> 4, den |-> 5 ] },
      order : { Listing(SessionOrder) } ]
    \cup
    [ method : { "genetic" }, n : { -1, 0, 2 },
      max_rounds : 0..MaxGeneticRounds,
      probability_threshold : { [ num |-> 1, den |-> 2 ], [ num |-> 4, den |-> 5 ] },
      order : { Listing(SessionOrder) } ]

\* multi_round_diagnosis up to its loop
SessionInit ==
    /\ \E input \in SessionInputs :
          /\ method = input.method
          /\ n = input.n
          /\ max_rounds = input.max_rounds
          /\ probability_threshold = input.probability_threshold
          /\ order = input.order
    /\ rounding = NoSets
    /\ disease_symptoms = SessionCatalog
    /\ current_symptoms = SessionInitialSymptoms
    /\ denied_symptoms = {}
    /\ round_count = 0
    /\ pc = "round"
    /\ result = NoResult
    /\ first_result = NoResult
    /\ calls = 0
    /\ population = EmptyBag
    /\ bred = EmptyBag
    /\ generation = 0
    /\ mutation_rate = InitialMutationRate
    /\ scores = NoScores

\* score > probability_threshold: no stop on a score equal to the threshold
ReachesThresholdStrictly(rate, threshold) ==
    rate.num * threshold.den > threshold.num * rate.den

\* score >= probability_threshold
ReachesThreshold(rate, threshold) ==
    rate.num * threshold.den >= threshold.num * rate.den

\* the next pass of "for round_count in range(1, max_rounds + 1)" up to the
\* return of calculate_next_n_symptoms
AskRound ==
    /\ pc = "round"
    /\ round_count < max_rounds
    /\ round_count' = round_count + 1
    /\ calls' = calls + 1
    /\ IF method = "genetic"
          /\ Cardinality(AvailableSymptoms(disease_symptoms, current_symptoms, denied_symptoms)) >= n
       THEN /\ \E outcome \in genetic_algorithm(disease_symptoms, order, current_symptoms,
                                  get_candidate_diseases(disease_symptoms, current_symptoms),
                                  AvailableSymptoms(disease_symptoms, current_symptoms,
                                                    denied_symptoms),
                                  n, denied_symptoms) :
                   Complete(outcome)
            /\ order' = NextList(order)
            /\ rounding' = NoSets
            /\ UNCHANGED genetic
       ELSE \E env \in RoundEnvironments(disease_symptoms, current_symptoms, n, method,
                                          denied_symptoms) :
                EnterCall(env.order, env.rounding)
    /\ UNCHANGED << engine, arguments, scores, max_rounds, probability_threshold >>

\* an exception of calculate_next_n_symptoms ends multi_round_diagnosis
Propagate ==
    /\ pc = "returned"
    /\ result.kind = "error"
    /\ pc' = "raised"
    /\ UNCHANGED << engine, environment, arguments, result, calls, genetic, first_result,
                    scores, session >>

\* "if not next_symptoms: break", then the final scores
NoMoreSymptoms ==
    /\ pc = "returned"
    /\ result = Ok({})
    /\ scores' = get_disease_match_scores(disease_symptoms, current_symptoms)
    /\ pc' = "done"
    /\ UNCHANGED << engine, environment, arguments, result, calls, genetic, first_result, session >>

\* the patient names confirmed_symptoms: every proposed symptom goes to
\* current_symptoms if named and to denied_symptoms otherwise; the scores are
\* computed and the function returns when one reaches the threshold
Answer ==
    /\ pc = "returned"
    /\ result.kind = "ok"
    /\ result.value # {}
    /\ \E confirmed_symptoms \in SUBSET result.value :
          /\ current_symptoms' = current_symptoms \cup confirmed_symptoms
          /\ denied_symptoms' = denied_symptoms \cup (result.value \ confirmed_symptoms)
    /\ scores' = get_disease_match_scores(disease_symptoms, current_symptoms')
    /\ pc' = IF \E d \in DOMAIN scores' : ReachesThreshold(scores'[d], probability_threshold)
             THEN "done" ELSE "round"
    /\ UNCHANGED << engine, environment, n, method, result, calls, genetic, first_result, session >>

\* the loop ends after max_rounds passes, then the final scores
RoundsExhausted ==
    /\ pc = "round"
    /\ round_count >= max_rounds
    /\ scores' = get_disease_match_scores(disease_symptoms, current_symptoms)
    /\ pc' = "done"
    /\ UNCHANGED << engine, environment, arguments, result, calls, genetic, first_result, session >>

SessionNext ==
    \/ AskRound
    \/ Propagate
    \/ NoMoreSymptoms
    \/ Answer
    \/ RoundsExhausted

SessionSpec == SessionInit /\ [][SessionNext]_vars

----------------------------------------------------------------------------
(* Properties of calculate_next_n_symptoms and get_disease_match_scores *)

\* C1: for the three methods, no returned proposal and no individual of the
\* genetic population, before or after local search, holds a confirmed symptom.
C1_ProposalExcludesConfirmed ==
    method \in Methods =>
        /\ result.kind = "ok" => result.value \cap current_symptoms = {}
        /\ \A individual \in BagToSet(population) \cup BagToSet(bred) :
              individual \cap current_symptoms = {}

\* a genetic run over a catalog with confirmed symptoms returned a proposal,
\* after a last generation that bred different individuals
C1_Witness ==
    /\ pc = "returned" /\ method = "genetic" /\ generation = generations
    /\ result.kind = "ok" /\ result.value # {}
    /\ current_symptoms \cap all_symptoms(disease_symptoms) # {}
    /\ Cardinality(BagToSet(bred)) > 1

\* C3 (as stated): a call with an unknown method always fails with "Unknown
\* method", also when fewer than n unconfirmed symptoms remain.
C3_UnknownMethodAlwaysFails ==
    (pc = "returned" /\ method \notin Methods) => result = Raise("Unknown method")

\* C3 (amended): a call with an unknown method fails with "Unknown method"
\* whenever at least n unconfirmed symptoms remain, n <= 0 included; when fewer
\* than n remain it returns all of them, whatever the method string.
C3_UnknownMethodFailsUnlessShort ==
    (pc = "returned" /\ method \notin Methods) =>
        IF Cardinality(all_symptoms(disease_symptoms) \ current_symptoms) >= n
        THEN result = Raise("Unknown method")
        ELSE result = Ok(all_symptoms(disease_symptoms) \ current_symptoms)

\* an unknown method was refused on a call with enough unconfirmed symptoms
C3_Witness ==
    /\ pc = "returned" /\ method \notin Methods /\ n >= 1
    /\ Cardinality(all_symptoms(disease_symptoms) \ current_symptoms) >= n
    /\ result.error = "Unknown method"

\* C4: a call with n <= 0 fails with an error for each of the three methods.
C4_NonPositiveNFails ==
    (pc = "returned" /\ method \in Methods /\ n <= 0) => result.kind = "error"

\* C5: when fewer than n symptoms are unconfirmed, the call returns exactly the
\* set of the unconfirmed symptoms, denied ones included, for every method.
C5_ShortProposalIsWholePool ==
    (pc = "returned" /\ Cardinality(all_symptoms(disease_symptoms) \ current_symptoms) < n) =>
        result = Ok(all_symptoms(disease_symptoms) \ current_symptoms)

\* a short proposal that holds a denied symptom was returned
C5_Witness ==
    /\ pc = "returned" /\ method = "exhaustive"
    /\ Cardinality(all_symptoms(disease_symptoms) \ current_symptoms) < n
    /\ result.kind = "ok" /\ result.value \cap denied_symptoms # {}

\* C6: with n >= 1 and at least n unconfirmed symptoms, each of the three
\* methods returns exactly n unconfirmed symptoms, and every individual of the
\* genetic population, before and after local search, is such a set.
C6_ProposalHasExactlyN ==
    LET pool == all_symptoms(disease_symptoms) \ current_symptoms
        full(c) == Cardinality(c) = n /\ c \subseteq pool
    IN  (method \in Methods /\ n >= 1 /\ Cardinality(pool) >= n) =>
            /\ pc = "returned" => result.kind = "ok" /\ full(result.value)
            /\ pc = "genetic" =>
                  \A individual \in BagToSet(population) \cup BagToSet(bred) : full(individual)

\* a genetic run with a denied set returned n symptoms, after a last
\* generation that bred different individuals, one of which local search
\* replaced
C6_Witness ==
    /\ pc = "returned" /\ method = "genetic" /\ generation = generations
    /\ n >= 1 /\ denied_symptoms # {} /\ Cardinality(result.value) = n
    /\ Cardinality(BagToSet(bred)) > 1
    /\ population # bred

\* C7: with n >= 1 and at least n unconfirmed symptoms, no n-subset of the
\* unconfirmed symptoms has a larger value of combined score minus 0.2 per
\* denied symptom than the combination the exhaustive method returns.
C7_ExhaustiveIsOptimal ==
    LET pool == all_symptoms(disease_symptoms) \ current_symptoms
        cands == get_candidate_diseases(disease_symptoms, current_symptoms)
        penalised(c) == calculate_combined_score(disease_symptoms, rounding, current_symptoms \cup c, cands)
                        - Cardinality(c \cap denied_symptoms) * (ScoreUnit \div 5)
    IN  (pc = "returned" /\ method = "exhaustive" /\ n >= 1 /\ Cardinality(pool) >= n) =>
            /\ result.kind = "ok"
            /\ \A c \in SUBSET pool :
                   Cardinality(c) = n => penalised(c) <= penalised(result.value)

\* the exhaustive method returned a combination that a combination holding a
\* denied symptom beats on the unpenalised combined score
C7_Witness ==
    LET pool == all_symptoms(disease_symptoms) \ current_symptoms
        cands == get_candidate_diseases(disease_symptoms, current_symptoms)
        combined(c) == calculate_combined_score(disease_symptoms, rounding, current_symptoms \cup c, cands)
    IN  /\ pc = "returned" /\ method = "exhaustive" /\ n >= 1 /\ Cardinality(pool) >= n
        /\ result.kind = "ok"
        /\ \E c \in SUBSET pool : /\ Cardinality(c) = n
                                   /\ c \cap denied_symptoms # {}
                                   /\ combined(c) > combined(result.value)

\* C8: every genetic call on the same inputs returns what the first one did.
C8_GeneticRepeatable ==
    (pc = "returned" /\ method = "genetic") => result = first_result

\* C10: get_disease_match_scores has one entry per disease, of value
\* |confirmed /\ symptoms| / |symptoms| or 0 for a disease without symptoms; each
\* value is in [0,1], and all are 0 when confirmed is empty.
C10_MatchScores ==
    scores # NoScores =>
        /\ DOMAIN scores = DOMAIN disease_symptoms
        /\ \A d \in DOMAIN disease_symptoms :
              LET symptoms == disease_symptoms[d]
                  rate == scores[d]
              IN  /\ rate.den > 0
                  /\ IF symptoms = {} THEN rate.num = 0
                     ELSE rate.num * Cardinality(symptoms)
                          = Cardinality(current_symptoms \cap symptoms) * rate.den
                  /\ 0 <= rate.num /\ rate.num <= rate.den
                  /\ current_symptoms = {} => rate.num = 0

\* scores were computed for a confirmed set with a symptom foreign to a
\* catalog that has a disease without symptoms
C10_Witness ==
    /\ pc = "scored"
    /\ current_symptoms \ all_symptoms(disease_symptoms) # {}
    /\ \E d \in DOMAIN disease_symptoms : disease_symptoms[d] = {}
    /\ \E d \in DOMAIN disease_symptoms : scores[d].num > 0

----------------------------------------------------------------------------
(* Properties of multi_round_diagnosis *)

\* C2: at every point of a session no symptom is both in the confirmed set
\* and in the denied set, whatever the patient answers.
C2_ConfirmedDeniedDisjoint ==
    current_symptoms \cap denied_symptoms = {}

\* C9: the loop never runs more than max_rounds rounds, and a round after the
\* first is only asked when no disease has a match score of at least the
\* threshold at the end of the round before.
C9_StopsAtThresholdOrMaxRounds ==
    LET reached == \E d \in DOMAIN disease_symptoms :
                       /\ disease_symptoms[d] # {}
                       /\ Cardinality(current_symptoms \cap disease_symptoms[d])
                              * probability_threshold.den
                          >= probability_threshold.num * Cardinality(disease_symptoms[d])
    IN  /\ round_count <= max_rounds
        /\ (pc = "round" /\ round_count >= 1) => ~ reached
        /\ (pc \in { "genetic", "returned" } /\ round_count >= 2) => ~ reached

\* a session stopped on the threshold after its second round, before max_rounds
C9_Witness ==
    /\ pc = "done"
    /\ round_count = 2
    /\ round_count < max_rounds
    /\ \E d \in DOMAIN scores : scores[d].num * probability_threshold.den
                                   >= probability_threshold.num * scores[d].den

----------------------------------------------------------------------------
(* Properties of the generations of _genetic_algorithm *)

\* C11 (as stated): in every generation the individuals of some choice of the
\* elite_size fittest are still in the population the next generation starts
\* with, and the best denial-penalised fitness of that population is not
\* below the one before.
C11_ElitesStartNextGeneration ==
    [][ (pc = "genetic" /\ generation' = generation + 1) =>
          LET cands == get_candidate_diseases(disease_symptoms, current_symptoms)
              fit(c) == Score(disease_symptoms, rounding, current_symptoms \cup c, cands)
                        - Cardinality(c \cap denied_symptoms) * (ScoreUnit \div 5)
          IN  /\ \E elite \in BagsOf(BagToSet(population), elite_size) :
                    /\ elite \sqsubseteq population
                    /\ \A a \in BagToSet(elite), b \in BagToSet(population (-) elite) :
                          fit(a) >= fit(b)
                    /\ \A a \in BagToSet(elite) : BagIn(a, population')
              /\ \A old \in BagToSet(population) :
                    \E new \in BagToSet(population') : fit(new) >= fit(old)
      ]_vars

\* C11 (amended): in every generation elite_size individuals of the old
\* population that none of its others beats on denial-penalised fitness are
\* copied unchanged into the new population, so the best fitness of the new
\* population before its local-search pass is not below the old one; local
\* search then leaves as many individuals, none of them, elite or not, with a
\* lower combined score without the penalty.
C11_ElitesKeptUntilLocalSearch ==
    [][ (pc = "genetic" /\ generation' = generation + 1) =>
          LET cands == get_candidate_diseases(disease_symptoms, current_symptoms)
              combined(c) == Score(disease_symptoms, rounding, current_symptoms \cup c, cands)
              fit(c) == combined(c) - Cardinality(c \cap denied_symptoms) * (ScoreUnit \div 5)
              \* the individuals of the list pop that score at least as c does
              AtLeast(pop, c) ==
                  BagCardinality([ d \in { d \in BagToSet(pop) : combined(d) >= combined(c) }
                                     |-> pop[d] ])
          IN  /\ BagCardinality(bred') >= elite_size
              /\ \E elite \in BagsOf(BagToSet(population), elite_size) :
                    /\ elite \sqsubseteq population
                    /\ \A a \in BagToSet(elite), b \in BagToSet(population (-) elite) :
                          fit(a) >= fit(b)
                    /\ elite \sqsubseteq bred'
              /\ \A old \in BagToSet(population) :
                    \E new \in BagToSet(bred') : fit(new) >= fit(old)
              /\ BagCardinality(population') = BagCardinality(bred')
              /\ \A c \in BagToSet(bred') : AtLeast(population', c) >= AtLeast(bred', c)
      ]_vars

\* a generation with a denied symptom ended with a fittest individual of the
\* new population that local search replaced
C11_Witness ==
    LET cands == get_candidate_diseases(disease_symptoms, current_symptoms)
        fit(c) == Score(disease_symptoms, rounding, current_symptoms \cup c, cands)
                  - Cardinality(c \cap denied_symptoms) * (ScoreUnit \div 5)
    IN  /\ pc = "genetic" /\ generation >= 1 /\ denied_symptoms # {}
        /\ BagCardinality(bred) >= elite_size
        /\ \E c \in BagToSet(bred) :
              /\ \A d \in BagToSet(bred) : fit(d) <= fit(c)
              /\ ~ BagIn(c, population)

\* C12: the population of the genetic selector has 50 individuals when it is
\* initialised and exactly 5 + 2 * 22 = 49 at the end of every generation, up
\* to the last of the 30; it is neither padded back to 50 nor shrunk further.
C12_PopulationSizes ==
    pc = "genetic" =>
        /\ generation \in 0..generations
        /\ generation = 0 =>
              BagCardinality(population) = 50 /\ BagCardinality(population) = population_size
        /\ generation >= 1 =>
              /\ BagCardinality(bred) = 49
              /\ BagCardinality(population) = 49
              /\ BagCardinality(population)
                 = elite_size + 2 * ((population_size - elite_size) \div 2)

\* the last generation has ended with 49 individuals, after breeding
\* different ones
C12_Witness ==
    /\ pc = "genetic" /\ generation = generations /\ generations = 30
    /\ BagCardinality(population) = 49
    /\ Cardinality(BagToSet(bred)) > 1

----------------------------------------------------------------------------
(* Properties of _calculate_total_information_gain *)

\* C13: after a call has scored its proposals, the information gain of a
\* symptom set over the candidate diseases of the call is the entropy
\* reduction of partitioning them by membership vector: 0 when all
\* candidates fall into one group, log2 of their count when each candidate is
\* a group of its own, and never lower for a larger symptom set, whose
\* partition is finer.
C13_InformationGainIsEntropyReduction ==
    LET cands == get_candidate_diseases(disease_symptoms, current_symptoms)
        gain(s) == calculate_total_information_gain(disease_symptoms, s, cands)
        groups(s) == split_by_symptoms(disease_symptoms, s, cands)
    IN  (pc = "returned" /\ cands # {}) =>
          \A subset \in SUBSET all_symptoms(disease_symptoms) :
              /\ Cardinality(groups(subset)) = 1 => gain(subset) = 0
              /\ Cardinality(groups(subset)) = Cardinality(cands) =>
                    gain(subset) = LogValue(Log2(Cardinality(cands)))
              /\ \A finer \in SUBSET all_symptoms(disease_symptoms) :
                    subset \subseteq finer => gain(finer) >= gain(subset)

====
